---- MODULE Spec2Model ----
(***************************************************************************)
(* Job orchestration of the downloader: the /download handler, the job     *)
(* thread download_video with its worker and ProgressHook, the progress    *)
(* store with its read-time cleanup, and the ResourceManager ledger of     *)
(* per-user concurrent downloads.  Threads interleave between the          *)
(* statements that touch shared state; nothing in the code locks.  A call  *)
(* into the ResourceManager is one step.                                   *)
(***************************************************************************)
EXTENDS Integers, Sequences, FiniteSets, Bags, TLC

(***************************************************************************)
(* Bounds of the model.                                                    *)
(***************************************************************************)
NumReqs == 1
NumAdmitReqs == 4
MaxTicks == 2
MaxLedgerCalls == 5
MaxFrames == 32
MaxAudioTens == 6
MaxPasses == 2

(***************************************************************************)
(* Program constants.                                                      *)
(***************************************************************************)
max_concurrent_downloads == 3
DownloadTimeoutSec == 180
MonitorPollSec == 3
ReadCleanupSec == 1800
sample_rate == 16000
read_samples == 1600
silence_samples == 8000
max_samples == 480000
min_samples == 16000
chunk_samples == 480000
overlap_samples == 32000
max_file_age_hours == 24
cleanup_interval == 1800
old_threshold == 3600

UserOrder == <<"u1", "u2">>
Users == {UserOrder[i] : i \in DOMAIN UserOrder}
Sessions == {1}

None == <<"none", 0>>

VARIABLES
    now,                        \* time.time() in milliseconds
    ticks,                      \* number of clock advances so far
    user_concurrent_downloads,  \* ResourceManager.user_concurrent_downloads
    download_progress,          \* app.download_progress
    progress_timestamps,        \* app.progress_timestamps
    threads,                    \* the /download requests with their job threads (a bag)
    sess,                       \* the /transcribe-url-poll background threads
    issued,                     \* keys handed to a started job thread
    returned,                   \* download ids a /download response has carried
    evicted,                    \* keys the cleanup has removed at least once
    ledger_log,                 \* per user: start_download / finish_download calls made
    whisper,                    \* the streaming whisper generator's locals and output
    parallel,                   \* ParallelTranscriber.transcribe_from_url's tasks and result
    router,                     \* one transcription request: its routing, backend calls and frames
    audio_stream,               \* the audio ffmpeg writes to the generator's pipe
    files,                      \* a user's download directory as the janitor sees it
    last_read,                  \* time.time() of the latest GET /progress, in ms
    scan,                       \* a GET /progress taken one statement at a time
    pipe,                       \* generate_streaming_response's reads of ffmpeg's pipe
    janitor                     \* _background_cleanup's cycle over the user directories

vars == <<now, ticks, user_concurrent_downloads, download_progress,
          progress_timestamps, threads, sess, issued, returned, evicted,
          ledger_log, whisper, parallel,
          router, audio_stream, files, last_read, scan, pipe, janitor>>

(***************************************************************************)
(* Python dictionaries: a function whose domain is the set of keys.        *)
(***************************************************************************)
EmptyDict == [k \in {} |-> 0]

Get(d, k, default) == IF k \in DOMAIN d THEN d[k] ELSE default

Put(d, k, v) == [x \in (DOMAIN d) \cup {k} |-> IF x = k THEN v ELSE d[x]]

Del(d, k) == [x \in (DOMAIN d) \ {k} |-> d[x]]

Max(a, b) == IF a >= b THEN a ELSE b

(***************************************************************************)
(* Status records of the progress store.                                   *)
(***************************************************************************)
St(s) == [status |-> s, error |-> "none"]

Err(e) == [status |-> "error", error |-> e]

NotFound == St("not_found")

DownloadKey(id) == <<"", id>>

TranscribeKey(session_id) == <<"transcribe_", session_id>>

(***************************************************************************)
(* ResourceManager: the ledger of concurrent downloads per user.           *)
(***************************************************************************)
can_start_download_lax(d, user_id) ==
    ~ (Get(d, user_id, 0) > max_concurrent_downloads)

can_start_download(d, user_id) ==
    ~ (Get(d, user_id, 0) >= max_concurrent_downloads)

start_download(d, user_id) ==
    LET d0 == IF user_id \notin DOMAIN d THEN Put(d, user_id, 0) ELSE d
    IN  Put(d0, user_id, d0[user_id] + 1)

finish_download_keep_zero(d, user_id) ==
    IF user_id \in DOMAIN d
    THEN Put(d, user_id, Max(0, d[user_id] - 1))
    ELSE d

finish_download(d, user_id) ==
    IF user_id \in DOMAIN d
    THEN LET d1 == Put(d, user_id, Max(0, d[user_id] - 1))
         IN  IF d1[user_id] = 0 THEN Del(d1, user_id) ELSE d1
    ELSE d

LogCall(log, u, what) ==
    [log EXCEPT ![u] = [@ EXCEPT ![what] = @ + 1]]

(***************************************************************************)
(* Initial state: the module-level dictionaries are empty, the             *)
(* ResourceManager has just been constructed, no request has arrived.      *)
(* A thread record holds one /download request (pc, began) and the         *)
(* download_video thread it starts (jpc, worker, ...).  Requests are       *)
(* interchangeable, so the state keeps them as a bag.                      *)
(***************************************************************************)
NewThread(u) ==
    [pc |-> "can_start", user |-> u, download_id |-> None,
     began |-> FALSE, jpc |-> "none", start_time |-> 0,
     worker |-> "none", download_success |-> FALSE, error_message |-> "none",
     finish_calls |-> 0, timed_out |-> FALSE, late_worker |-> FALSE,
     files_recorded |-> FALSE, attempts |-> <<>>]

\* no transcription request has arrived
NoRequest ==
    [pc |-> "idle", endpoint |-> "none", language |-> "none", streaming |-> FALSE,
     whisper_available |-> FALSE, whisper_transcriber |-> FALSE,
     use_language |-> "none", detected_language |-> "none", chunk_count |-> 0,
     detect_calls |-> 0, calls |-> <<>>, texts |-> <<>>, frames |-> <<>>,
     response |-> "none", total_transcript |-> <<>>, sent |-> <<>>,
     final_data |-> [transcript |-> "none", chunks_processed |-> 0],
     process |-> "none"]

\* ffmpeg has not been started: silence, then tone, then silence, in frames of 0.1 s
NoStream == [pc |-> "closed", lead |-> 0, tone |-> 0, trail |-> 0]

\* downloads/<user_id> does not exist and the janitor has not looked at it
NoDirectory ==
    [exists |-> FALSE, mtime |-> EmptyDict, pc |-> "idle", passes |-> 0,
     swept_at |-> 0, cutoff_time |-> 0, files_with_time |-> EmptyDict, files_removed |-> 0,
     error |-> "none"]

\* no GET /progress is being served statement by statement
NoScan ==
    [pc |-> "idle", download_id |-> None, current_time |-> 0, used |-> 0,
     visited |-> {}, old_keys |-> {}, status |-> "none"]

\* ffmpeg has not been started for generate_streaming_response; lengths in samples
NoPipe ==
    [pc |-> "closed", left |-> 0, chunk_count |-> 0, transcribed |-> <<>>,
     skipped |-> <<>>]

\* the janitor thread has been started and sleeps before its first cycle
NewJanitor ==
    [pc |-> "sleeping", cycles |-> 0, todo |-> {}, raised |-> EmptyDict, escaped |-> FALSE]

Init ==
    /\ now = 0
    /\ ticks = 0
    /\ user_concurrent_downloads = EmptyDict
    /\ download_progress = EmptyDict
    /\ progress_timestamps = EmptyDict
    /\ threads = EmptyBag
    /\ sess = [s \in Sessions |-> "idle"]
    /\ issued = {}
    /\ returned = {}
    /\ evicted = {}
    /\ ledger_log = [u \in Users |-> [starts |-> 0, finishes |-> 0]]
    /\ whisper = [pc |-> "read", frames_read |-> 0, audio_buffer |-> 0,
                  consecutive_silence |-> 0, chunk_count |-> 0, closed |-> 0,
                  segment_samples |-> 0,
                  transcripts |-> <<>>, yielded |-> <<>>]
    /\ parallel = [pc |-> "idle", chunks |-> 0, task_results |-> <<>>,
                   completed |-> <<>>, results |-> <<>>, transcript |-> <<>>]
    /\ router = NoRequest
    /\ audio_stream = NoStream
    /\ files = NoDirectory
    /\ last_read = 0 - 1
    /\ scan = NoScan
    /\ pipe = NoPipe
    /\ janitor = NewJanitor

Threads == BagToSet(threads)

KeepTranscription == UNCHANGED <<whisper, parallel,
          router, audio_stream, files, last_read, scan, pipe, janitor>>

\* thread t takes a step and becomes t2
Becomes(t, t2) == threads' = (threads (-) SetToBag({t})) (+) SetToBag({t2})

(***************************************************************************)
(* The ledger on its own: any sequence of whole start_download and         *)
(* finish_download calls, in any order and for any user.                   *)
(***************************************************************************)
LedgerCallsMade ==
    LET n[S \in SUBSET Users] ==
            IF S = {} THEN 0
            ELSE LET u == CHOOSE x \in S : TRUE
                 IN  ledger_log[u].starts + ledger_log[u].finishes + n[S \ {u}]
    IN  n[Users]

LedgerStart(u) ==
    /\ LedgerCallsMade < MaxLedgerCalls
    /\ user_concurrent_downloads' = start_download(user_concurrent_downloads, u)
    /\ ledger_log' = LogCall(ledger_log, u, "starts")
    /\ UNCHANGED <<now, ticks, download_progress, progress_timestamps, threads,
                   sess, issued, returned, evicted>>
    /\ KeepTranscription

LedgerFinish(u) ==
    /\ LedgerCallsMade < MaxLedgerCalls
    /\ user_concurrent_downloads' = finish_download(user_concurrent_downloads, u)
    /\ ledger_log' = LogCall(ledger_log, u, "finishes")
    /\ UNCHANGED <<now, ticks, download_progress, progress_timestamps, threads,
                   sess, issued, returned, evicted>>
    /\ KeepTranscription

NextLedger ==
    \/ \E u \in Users : LedgerStart(u)
    \/ \E u \in Users : LedgerFinish(u)

SpecLedger == Init /\ [][NextLedger]_vars

(***************************************************************************)
(* The progress store.                                                     *)
(***************************************************************************)
Ms(sec) == sec * 1000

update_progress_stamp(ts, download_id, t) == Put(ts, download_id, t)

update_progress_store(dp, download_id, status_dict) == Put(dp, download_id, status_dict)

\* download_progress[download_id] = {...}: a write that leaves the timestamp alone
write_status(dp, download_id, status_dict) == Put(dp, download_id, status_dict)

\* a mutation: an entry exactly as old as the threshold is dropped too
OldKeys_at_threshold(ts, t, threshold) ==
    {k \in DOMAIN ts : t - ts[k] >= Ms(threshold)}

OldKeys(ts, t, threshold) == {k \in DOMAIN ts : t - ts[k] > Ms(threshold)}

PopAll(d, keys) == [k \in (DOMAIN d) \ keys |-> d[k]]

progress_get_lenient(dp, k) == Get(dp, k, St("initializing"))

progress_get(dp, k) == Get(dp, k, NotFound)

(***************************************************************************)
(* /download: the request thread, one step per access to shared state.     *)
(***************************************************************************)
ReqFrame == UNCHANGED <<now, ticks, download_progress, progress_timestamps, sess,
                        evicted, whisper, parallel,
          router, audio_stream, files, last_read, scan, pipe, janitor>>

\* Users are interchangeable: a user never seen before is the first such user
SeenUsers == {t.user : t \in Threads}

FreshUser ==
    LET unseen == {i \in DOMAIN UserOrder : UserOrder[i] \notin SeenUsers}
    IN  {UserOrder[i] : i \in {j \in unseen : \A k \in unseen : j <= k}}

\* a request arrives: `if not url: return 400`, then on to the resource checks
download_submit(limit, u, has_url) ==
    /\ BagCardinality(threads) < limit
    /\ u \in SeenUsers \cup FreshUser
    /\ threads' = threads (+) SetToBag({
           [NewThread(u) EXCEPT !.pc = IF has_url THEN "can_start" ELSE "resp400"]})
    /\ UNCHANGED <<user_concurrent_downloads, issued, returned, ledger_log>>
    /\ ReqFrame

download_can_start(t) ==
    /\ t.pc = "can_start"
    /\ Becomes(t, [t EXCEPT !.pc =
           IF can_start_download(user_concurrent_downloads, t.user)
           THEN "check_disk" ELSE "resp429"])
    /\ UNCHANGED <<user_concurrent_downloads, issued, returned, ledger_log>>
    /\ ReqFrame

\* check_disk_space() answers from the file system; then the id is drawn from the clock
download_check_disk(t, disk_ok) ==
    /\ t.pc = "check_disk"
    /\ Becomes(t, IF disk_ok
                  THEN [t EXCEPT !.download_id = DownloadKey(now), !.pc = "start_download"]
                  ELSE [t EXCEPT !.pc = "resp503"])
    /\ UNCHANGED <<user_concurrent_downloads, issued, returned, ledger_log>>
    /\ ReqFrame

\* resource_manager.start_download(user_id)
download_start_download(t) ==
    /\ t.pc = "start_download"
    /\ user_concurrent_downloads' = start_download(user_concurrent_downloads, t.user)
    /\ ledger_log' = LogCall(ledger_log, t.user, "starts")
    /\ Becomes(t, [t EXCEPT !.began = TRUE, !.pc = "thread_start"])
    /\ UNCHANGED <<issued, returned>>
    /\ ReqFrame

\* threading.Thread(target=download_video, ...).start(); a RuntimeError ends with 500
download_thread_start(t, started) ==
    /\ t.pc = "thread_start"
    /\ IF started
       THEN /\ issued' = issued \cup {t.download_id}
            /\ Becomes(t, [t EXCEPT !.pc = "respond", !.jpc = "j_init"])
       ELSE /\ Becomes(t, [t EXCEPT !.pc = "resp500"])
            /\ UNCHANGED issued
    /\ UNCHANGED <<user_concurrent_downloads, returned, ledger_log>>
    /\ ReqFrame

\* return jsonify({'download_id': download_id})
download_respond(t) ==
    /\ t.pc = "respond"
    /\ returned' = returned \cup {t.download_id}
    /\ Becomes(t, [t EXCEPT !.pc = "resp200"])
    /\ UNCHANGED <<user_concurrent_downloads, issued, ledger_log>>
    /\ ReqFrame

Rejected(t) == t.pc \in {"resp400", "resp429", "resp503"}

(***************************************************************************)
(* download_video: the job thread.                                         *)
(***************************************************************************)
JobAt(t, pc) == t.jpc = pc

UpdateProgress(t, status_dict) ==
    /\ download_progress' =
           update_progress_store(download_progress, t.download_id, status_dict)
    /\ progress_timestamps' =
           update_progress_stamp(progress_timestamps, t.download_id, now)

WriteStatus(t, status_dict) ==
    /\ download_progress' = write_status(download_progress, t.download_id, status_dict)
    /\ UNCHANGED progress_timestamps

KeepStore == UNCHANGED <<download_progress, progress_timestamps>>

JobFrame == UNCHANGED <<now, ticks, user_concurrent_downloads, sess,
                        issued, returned, evicted, ledger_log, whisper, parallel,
          router, audio_stream, files, last_read, scan, pipe, janitor>>

\* update_progress(download_id, {'status': 'initializing'})
job_initializing(t) ==
    /\ JobAt(t, "j_init")
    /\ UpdateProgress(t, St("initializing"))
    /\ Becomes(t, [t EXCEPT !.jpc = "j_mkdir"])
    /\ JobFrame

\* downloads_dir.mkdir(parents=True, exist_ok=True), which may raise
job_mkdir(t, ok) ==
    /\ JobAt(t, "j_mkdir")
    /\ Becomes(t, [t EXCEPT !.jpc = IF ok THEN "j_prep" ELSE "j_except"])
    /\ KeepStore
    /\ JobFrame

job_preparing(t) ==
    /\ JobAt(t, "j_prep")
    /\ UpdateProgress(t, St("preparing"))
    /\ Becomes(t, [t EXCEPT !.jpc = "j_starting"])
    /\ JobFrame

job_starting(t) ==
    /\ JobAt(t, "j_starting")
    /\ UpdateProgress(t, St("starting"))
    /\ Becomes(t, [t EXCEPT !.jpc = "j_dl0"])
    /\ JobFrame

job_downloading(t) ==
    /\ JobAt(t, "j_dl0")
    /\ UpdateProgress(t, St("downloading"))
    /\ Becomes(t, [t EXCEPT !.jpc = "j_submit"])
    /\ JobFrame

\* future = executor.submit(download_worker); start_time = time.time()
job_submit_worker(t) ==
    /\ JobAt(t, "j_submit")
    /\ Becomes(t, [t EXCEPT !.jpc = "j_wait", !.worker = "w_extract",
                            !.start_time = now])
    /\ KeepStore
    /\ JobFrame

\* future.result(timeout=3) returns: the worker has ended
job_worker_returned(t) ==
    /\ JobAt(t, "j_wait")
    /\ t.worker = "w_done"
    /\ WriteStatus(t, St("processing"))
    /\ Becomes(t, [t EXCEPT !.jpc = "j_check"])
    /\ JobFrame

Elapsed(t) == now - t.start_time

TimedOut(elapsed) == elapsed > Ms(DownloadTimeoutSec)

\* future.result(timeout=3) raises TimeoutError: the worker is still running
job_monitor_timeout(t) ==
    /\ JobAt(t, "j_wait")
    /\ t.worker # "w_done"
    /\ Elapsed(t) >= Ms(MonitorPollSec)
    /\ IF TimedOut(Elapsed(t))
       THEN /\ WriteStatus(t, Err("timeout"))
            /\ Becomes(t, [t EXCEPT !.jpc = "j_shutdown", !.timed_out = TRUE])
       ELSE /\ WriteStatus(t, St("downloading"))
            /\ UNCHANGED threads
    /\ JobFrame

\* the return inside `with ThreadPoolExecutor()`: __exit__ waits for the worker
job_executor_shutdown(t) ==
    /\ JobAt(t, "j_shutdown")
    /\ t.worker = "w_done"
    /\ Becomes(t, [t EXCEPT !.jpc = "j_finally"])
    /\ KeepStore
    /\ JobFrame

\* if error_message: ... return;  if not download_success: ... return;  else processing
job_check_result(t) ==
    /\ JobAt(t, "j_check")
    /\ IF t.error_message = "msg"
       THEN /\ WriteStatus(t, Err("worker"))
            /\ Becomes(t, [t EXCEPT !.jpc = "j_finally"])
       ELSE IF ~ t.download_success
       THEN /\ WriteStatus(t, Err("unknown"))
            /\ Becomes(t, [t EXCEPT !.jpc = "j_finally"])
       ELSE /\ WriteStatus(t, St("processing"))
            /\ Becomes(t, [t EXCEPT !.jpc = "j_list"])
    /\ JobFrame

\* list(downloads_dir.iterdir()), outside the post-processing try
job_list_files(t, ok) ==
    /\ JobAt(t, "j_list")
    /\ Becomes(t, [t EXCEPT !.jpc = IF ok THEN "j_post" ELSE "j_except"])
    /\ KeepStore
    /\ JobFrame

\* format_type == 'mp3' and not ffmpeg_working and PYDUB_AVAILABLE
job_converting(t) ==
    /\ JobAt(t, "j_post")
    /\ WriteStatus(t, St("converting"))
    /\ Becomes(t, [t EXCEPT !.jpc = "j_files"])
    /\ JobFrame

\* the files are converted and appended to user_downloads[user_id] (files_recorded);
\* an exception ends in 'Post-processing failed'
job_record_files(t, ok) ==
    /\ t.jpc \in {"j_post", "j_files"}
    /\ IF ok
       THEN /\ Becomes(t, [t EXCEPT !.jpc = "j_final", !.files_recorded = TRUE])
            /\ KeepStore
       ELSE /\ WriteStatus(t, Err("postproc"))
            /\ Becomes(t, [t EXCEPT !.jpc = "j_finally"])
    /\ JobFrame

job_finished(t) ==
    /\ JobAt(t, "j_final")
    /\ WriteStatus(t, St("finished"))
    /\ Becomes(t, [t EXCEPT !.jpc = "j_finally"])
    /\ JobFrame

\* a mutation: the handler logs the exception and writes no status
job_exception_logs_only(t) ==
    /\ JobAt(t, "j_except")
    /\ KeepStore
    /\ Becomes(t, [t EXCEPT !.jpc = "j_finally"])
    /\ JobFrame

\* except Exception as e: download_progress[download_id] = {'status': 'error', ...}
job_exception(t) ==
    /\ JobAt(t, "j_except")
    /\ WriteStatus(t, Err("exception"))
    /\ Becomes(t, [t EXCEPT !.jpc = "j_finally"])
    /\ JobFrame

\* finally: resource_manager.finish_download(user_id)
download_video_finally(t) ==
    /\ JobAt(t, "j_finally")
    /\ user_concurrent_downloads' = finish_download(user_concurrent_downloads, t.user)
    /\ ledger_log' = LogCall(ledger_log, t.user, "finishes")
    /\ Becomes(t, [t EXCEPT !.finish_calls = @ + 1, !.jpc = "j_done"])
    /\ UNCHANGED <<now, ticks, download_progress, progress_timestamps,
                   sess, issued, returned, evicted, whisper, parallel,
          router, audio_stream, files, last_read, scan, pipe, janitor>>

(***************************************************************************)
(* download_worker, run by the executor, and the ProgressHook yt-dlp calls *)
(* from it.  late_worker records that the worker went on downloading or    *)
(* writing progress after the monitor loop had declared the timeout.       *)
(***************************************************************************)
WorkerAt(t, w) == t.worker = w

WorkerRuns(t) == [t EXCEPT !.late_worker = @ \/ t.timed_out]

WorkerEnds(t, outcome) ==
    [t EXCEPT
        !.late_worker = @ \/ (t.timed_out /\ outcome = "ok"),
        !.worker = "w_done",
        !.download_success = (outcome = "ok"),
        !.error_message = CASE outcome = "ok" -> "none"
                            [] outcome = "error" -> "msg"
                            [] OTHER -> "empty"]

\* test_ydl.extract_info(url, download=False)
worker_extract_info(t, ok) ==
    /\ WorkerAt(t, "w_extract")
    /\ Becomes(t, IF ok THEN [WorkerRuns(t) EXCEPT !.worker = "w_download"]
                        ELSE WorkerEnds(t, "error"))
    /\ KeepStore
    /\ JobFrame

\* a mutation: every failed download is tried again with the id-based name
any_download_error(outcome) == outcome # "ok"

\* `if is_filename_too_long:` on the text of the download error
is_filename_too_long(outcome) == outcome = "name_too_long"

\* ydl.download([url]) with the title-based name ends; attempts is the sequence
\* of the outcomes of the ydl.download calls of this worker
worker_download(t, outcome) ==
    /\ t.worker \in {"w_download", "w_downloaded"}
    /\ outcome = "name_too_long" => WorkerAt(t, "w_download")
    /\ Becomes(t, IF is_filename_too_long(outcome)
                  THEN [WorkerRuns(t) EXCEPT !.worker = "w_retry",
                                             !.attempts = Append(@, outcome)]
                  ELSE [WorkerEnds(t, outcome) EXCEPT !.attempts = Append(@, outcome)])
    /\ KeepStore
    /\ JobFrame

\* ydl.download([url]) with the id-based name ends
worker_retry(t, outcome) ==
    /\ t.worker \in {"w_retry", "w_retried"}
    /\ Becomes(t, [WorkerEnds(t, outcome) EXCEPT !.attempts = Append(@, outcome)])
    /\ KeepStore
    /\ JobFrame

HookStatus(event) == IF event = "downloading" THEN St("downloading") ELSE St("processing")

\* what remains of ydl.download once the hook has seen this event: yt-dlp reports
\* 'downloading' while it fetches the file, 'finished' once, then post-processes
AfterHook(w, event) ==
    IF event = "downloading" THEN w
    ELSE IF w = "w_download" THEN "w_downloaded" ELSE "w_retried"

\* ProgressHook.__call__(d) with d['status'] in {'downloading', 'finished'}
progress_hook(t, event) ==
    /\ t.worker \in {"w_download", "w_retry"}
    /\ WriteStatus(t, HookStatus(event))
    /\ Becomes(t, [WorkerRuns(t) EXCEPT !.worker = AfterHook(@, event)])
    /\ JobFrame

(***************************************************************************)
(* Progress polls.                                                         *)
(***************************************************************************)
PollFrame == UNCHANGED <<now, ticks, user_concurrent_downloads, threads, sess,
                         issued, returned, ledger_log, whisper, parallel,
                         router, audio_stream, files, scan, pipe, janitor>>

UnknownKeys == {DownloadKey(0 - 1), TranscribeKey(0)}

PollKeys ==
    (DOMAIN download_progress) \cup issued \cup UnknownKeys
        \cup {DownloadKey(now)} \cup {TranscribeKey(s) : s \in Sessions}

\* cleanup_old_progress(): drop the entries stamped more than 30 minutes ago
cleanup_old_progress(d) ==
    PopAll(d, OldKeys(progress_timestamps, now, ReadCleanupSec))

\* GET /progress/<download_id>: the cleanup, then the answer
get_progress_answer(download_id) ==
    progress_get(cleanup_old_progress(download_progress), download_id)

get_progress(download_id) ==
    /\ download_progress' = cleanup_old_progress(download_progress)
    /\ progress_timestamps' = cleanup_old_progress(progress_timestamps)
    /\ evicted' = evicted \cup OldKeys(progress_timestamps, now, ReadCleanupSec)
    /\ last_read' = now
    /\ PollFrame

\* GET /transcribe-progress/<session_id>: reads, changes nothing
get_transcribe_progress_answer(session_id) ==
    progress_get(download_progress, TranscribeKey(session_id))

(***************************************************************************)
(* /transcribe-url-poll and its background thread.                         *)
(***************************************************************************)
SessFrame == UNCHANGED <<now, ticks, user_concurrent_downloads, threads,
                         returned, evicted, ledger_log, progress_timestamps,
                         whisper, parallel,
          router, audio_stream, files, last_read, scan, pipe, janitor>>

transcribe_url_poll(s, has_url) ==
    /\ sess[s] = "idle"
    /\ sess' = [sess EXCEPT ![s] = IF has_url THEN "t_start" ELSE "t_400"]
    /\ issued' = IF has_url THEN issued \cup {TranscribeKey(s)} ELSE issued
    /\ UNCHANGED download_progress
    /\ SessFrame

\* download_progress[f'transcribe_{session_id}'] = transcription_progress
background_transcription_init(s) ==
    /\ sess[s] = "t_start"
    /\ download_progress' = write_status(download_progress, TranscribeKey(s),
                                         St("initializing"))
    /\ sess' = [sess EXCEPT ![s] = "t_run"]
    /\ UNCHANGED issued
    /\ SessFrame

\* transcription_progress['status'] = 'processing', on the stored dictionary itself
background_transcription_run(s) ==
    /\ sess[s] = "t_run"
    /\ download_progress' =
           IF TranscribeKey(s) \in DOMAIN download_progress
           THEN write_status(download_progress, TranscribeKey(s), St("processing"))
           ELSE download_progress
    /\ sess' = [sess EXCEPT ![s] = "t_done"]
    /\ UNCHANGED issued
    /\ SessFrame

(***************************************************************************)
(* The clock.                                                              *)
(***************************************************************************)
TickSteps == {Ms(MonitorPollSec), Ms(DownloadTimeoutSec), Ms(ReadCleanupSec)}

Tick(d) ==
    /\ ticks < MaxTicks
    /\ now' = now + d
    /\ ticks' = ticks + 1
    /\ UNCHANGED <<user_concurrent_downloads, download_progress, progress_timestamps,
                   threads, sess, issued, returned, evicted, ledger_log,
                   whisper, parallel,
          router, audio_stream, files, last_read, scan, pipe, janitor>>

(***************************************************************************)
(* The job threads in full.                                                *)
(***************************************************************************)
RequestSteps ==
    \/ \E t \in Threads : download_can_start(t)
    \/ \E t \in Threads, disk_ok \in BOOLEAN : download_check_disk(t, disk_ok)
    \/ \E t \in Threads : download_start_download(t)
    \/ \E t \in Threads, started \in BOOLEAN : download_thread_start(t, started)
    \/ \E t \in Threads : download_respond(t)

JobSteps ==
    \/ \E t \in Threads : job_initializing(t)
    \/ \E t \in Threads, ok \in BOOLEAN : job_mkdir(t, ok)
    \/ \E t \in Threads : job_preparing(t)
    \/ \E t \in Threads : job_starting(t)
    \/ \E t \in Threads : job_downloading(t)
    \/ \E t \in Threads : job_submit_worker(t)
    \/ \E t \in Threads : job_worker_returned(t)
    \/ \E t \in Threads : job_monitor_timeout(t)
    \/ \E t \in Threads : job_executor_shutdown(t)
    \/ \E t \in Threads : job_check_result(t)
    \/ \E t \in Threads, ok \in BOOLEAN : job_list_files(t, ok)
    \/ \E t \in Threads : job_converting(t)
    \/ \E t \in Threads, ok \in BOOLEAN : job_record_files(t, ok)
    \/ \E t \in Threads : job_finished(t)
    \/ \E t \in Threads : job_exception(t)
    \/ \E t \in Threads : download_video_finally(t)

WorkerSteps ==
    \/ \E t \in Threads, ok \in BOOLEAN : worker_extract_info(t, ok)
    \/ \E t \in Threads, outcome \in {"ok", "name_too_long", "error", "error_empty"} :
           worker_download(t, outcome)
    \/ \E t \in Threads, outcome \in {"ok", "error", "error_empty"} :
           worker_retry(t, outcome)
    \/ \E t \in Threads, event \in {"downloading", "finished"} : progress_hook(t, event)

Next ==
    \/ \E u \in Users, has_url \in BOOLEAN : download_submit(NumReqs, u, has_url)
    \/ RequestSteps
    \/ JobSteps
    \/ WorkerSteps
    \/ \E k \in PollKeys : get_progress(k)
    \/ \E d \in TickSteps : Tick(d)

Spec == Init /\ [][Next]_vars

(***************************************************************************)
(* The same with the polling transcription sessions, which share the       *)
(* progress store.                                                         *)
(***************************************************************************)
SessionSteps ==
    \/ \E s \in Sessions, has_url \in BOOLEAN : transcribe_url_poll(s, has_url)
    \/ \E s \in Sessions : background_transcription_init(s)
    \/ \E s \in Sessions : background_transcription_run(s)

NextStore ==
    \/ Next
    \/ SessionSteps

SpecStore == Init /\ [][NextStore]_vars

(***************************************************************************)
(* Admission under load: many concurrent /download requests.  The request  *)
(* threads and the finally of download_video run as above; the try block   *)
(* of download_video, which touches only the job's own progress entry, is  *)
(* one step that leaves the entry at the status it ends with.              *)
(***************************************************************************)
FinalStatuses == {St("finished"), Err("timeout"), Err("worker"), Err("unknown"),
                  Err("postproc"), Err("exception")}

download_video_body(t, final) ==
    /\ JobAt(t, "j_init")
    /\ UpdateProgress(t, final)
    /\ Becomes(t, [t EXCEPT !.jpc = "j_finally"])
    /\ JobFrame

NextAdmit ==
    \/ \E u \in Users, has_url \in BOOLEAN : download_submit(NumAdmitReqs, u, has_url)
    \/ RequestSteps
    \/ \E t \in Threads, final \in FinalStatuses : download_video_body(t, final)
    \/ \E t \in Threads : download_video_finally(t)

SpecAdmit == Init /\ [][NextAdmit]_vars

(***************************************************************************)
(* Streaming transcription: transcribe_from_url_streaming_whisper_generator *)
(* reads the audio in frames of 0.1 s, closes a segment at a pause or at   *)
(* the maximum length, numbers it, has the backend transcribe it and       *)
(* yields a chunk frame.  Lengths are in samples.                          *)
(***************************************************************************)
KeepJobs == UNCHANGED <<now, ticks, user_concurrent_downloads, download_progress,
                        progress_timestamps, threads, sess, issued, returned,
                        evicted, ledger_log, router, audio_stream, files, last_read, scan, pipe, janitor>>

\* a mutation: a segment closes at a pause only, never for its length
should_process_at_pause(audio_buffer, consecutive_silence) ==
    consecutive_silence >= silence_samples /\ audio_buffer >= min_samples

\* a mutation: a pause closes the segment however short the buffer is
should_process_without_minimum(audio_buffer, consecutive_silence) ==
    \/ consecutive_silence >= silence_samples
    \/ audio_buffer >= max_samples

\* should_process: a natural pause, or the maximum segment duration
should_process(audio_buffer, consecutive_silence) ==
    \/ consecutive_silence >= silence_samples /\ audio_buffer >= min_samples
    \/ audio_buffer >= max_samples

\* a mutation: the last frame of a segment stays in the buffer
keep_last_frame(audio_buffer) == read_samples

\* `audio_buffer = []` after a segment: what the buffer holds, in samples
reset_buffer(audio_buffer) == 0

\* one pass of the loop: a frame is read and, if a segment closes, transcribed;
\* segment_samples adds up len(audio_segment) of the segments handed on
whisper_read_chunk(silent, result) ==
    /\ whisper.pc = "read"
    /\ LET audio_buffer == whisper.audio_buffer + read_samples
           consecutive_silence ==
               IF silent THEN whisper.consecutive_silence + read_samples ELSE 0
           closes == should_process(audio_buffer, consecutive_silence)
           chunk_count == whisper.chunk_count + 1
           has_text == result = "text"
       IN  /\ ~ closes => result = "text"
           /\ whisper' =
                IF closes
                THEN [whisper EXCEPT
                        !.frames_read = @ + 1,
                        !.audio_buffer = reset_buffer(audio_buffer),
                        !.consecutive_silence = 0,
                        !.chunk_count = chunk_count,
                        !.closed = @ + 1,
                        !.segment_samples = @ + audio_buffer,
                        !.transcripts = IF has_text THEN Append(@, chunk_count) ELSE @,
                        !.yielded = IF has_text THEN Append(@, chunk_count) ELSE @]
                ELSE [whisper EXCEPT
                        !.frames_read = @ + 1,
                        !.audio_buffer = audio_buffer,
                        !.consecutive_silence = consecutive_silence]
    /\ UNCHANGED parallel
    /\ KeepJobs

\* `if not chunk_data:` the remaining audio, then the final frame
whisper_end_of_stream(result) ==
    /\ whisper.pc = "read"
    /\ LET process_rest == whisper.audio_buffer > 0 /\ whisper.audio_buffer >= min_samples
           chunk_count == whisper.chunk_count + 1
           has_text == result = "text"
       IN  /\ ~ process_rest => result = "text"
           /\ whisper' =
                IF process_rest
                THEN [whisper EXCEPT
                        !.pc = "final",
                        !.chunk_count = chunk_count,
                        !.closed = @ + 1,
                        !.segment_samples = @ + whisper.audio_buffer,
                        !.transcripts = IF has_text THEN Append(@, chunk_count) ELSE @,
                        !.yielded = IF has_text THEN Append(@, chunk_count) ELSE @]
                ELSE [whisper EXCEPT !.pc = "final"]
    /\ UNCHANGED parallel
    /\ KeepJobs

(***************************************************************************)
(* ParallelTranscriber.transcribe_from_url: one task per chunk, run        *)
(* concurrently, gathered, and joined in index order.                      *)
(***************************************************************************)
RECURSIVE split_from(_, _)
split_from(start, len) ==
    IF start < len
    THEN <<[start |-> start, end |-> IF start + chunk_samples <= len
                                     THEN start + chunk_samples ELSE len]>>
         \o split_from(start + chunk_samples - overlap_samples, len)
    ELSE <<>>

_split_audio(len) == split_from(0, len)

\* a sequence of results in the order their tasks completed
gather_as_completed(results, completed) ==
    [i \in 1..Len(completed) |-> results[completed[i]]]

\* asyncio.gather(*tasks): the results in the order of the tasks
gather(results, completed) ==
    [i \in 1..Len(completed) |-> results[i]]

\* sorted(results, key=lambda x: x['index']), by insertion
RECURSIVE sorted_by_index(_)
sorted_by_index(results) ==
    IF results = <<>> THEN <<>>
    ELSE LET i == CHOOSE j \in 1..Len(results) :
                      \A k \in 1..Len(results) : results[j].index <= results[k].index
         IN  <<results[i]>> \o
             sorted_by_index(SubSeq(results, 1, i - 1) \o
                             SubSeq(results, i + 1, Len(results)))

AudioLengths == {k * 10 * sample_rate : k \in 0..MaxAudioTens}

\* audio_data = await self._download_audio(url); the chunks; one task per chunk
parallel_create_tasks(len) ==
    /\ parallel.pc = "idle"
    /\ LET chunks == _split_audio(len)
       IN  parallel' = [parallel EXCEPT
               !.pc = "running",
               !.chunks = Len(chunks),
               !.task_results = [i \in 1..Len(chunks) |-> [index |-> i - 1]]]
    /\ UNCHANGED whisper
    /\ KeepJobs

\* _transcribe_chunk_with_timing(chunk, i, language) returns
parallel_task_completes(i) ==
    /\ parallel.pc = "running"
    /\ i \in 1..parallel.chunks
    /\ \A j \in 1..Len(parallel.completed) : parallel.completed[j] # i
    /\ parallel' = [parallel EXCEPT !.completed = Append(@, i)]
    /\ UNCHANGED whisper
    /\ KeepJobs

\* results = await asyncio.gather(*tasks); the transcript joined in index order
parallel_gather ==
    /\ parallel.pc = "running"
    /\ Len(parallel.completed) = parallel.chunks
    /\ LET results == gather(parallel.task_results, parallel.completed)
       IN  parallel' = [parallel EXCEPT
               !.pc = "done",
               !.results = results,
               !.transcript = [i \in 1..Len(results) |->
                                   sorted_by_index(results)[i].index]]
    /\ UNCHANGED whisper
    /\ KeepJobs

\* a frame of unknown loudness, while the model's stream lasts
whisper_read_any(silent, result) ==
    /\ whisper.frames_read < MaxFrames
    /\ whisper_read_chunk(silent, result)

NextTranscribe ==
    \/ \E silent \in BOOLEAN, result \in {"text", "empty"} :
           whisper_read_any(silent, result)
    \/ \E result \in {"text", "empty"} : whisper_end_of_stream(result)
    \/ \E len \in AudioLengths : parallel_create_tasks(len)
    \/ \E i \in 1..parallel.chunks : parallel_task_completes(i)
    \/ parallel_gather

SpecTranscribe == Init /\ [][NextTranscribe]_vars


(***************************************************************************)
(* Routing of a transcription request: /transcribe-url chooses between     *)
(* SenseVoice and Whisper from the requested language, the streaming flag  *)
(* and what is installed; with language 'auto' the streaming path asks     *)
(* Whisper to detect the language of the first chunk.  router.calls is     *)
(* the sequence of backend calls, one per segment; router.frames is the    *)
(* sequence of frames the event stream has carried.                        *)
(***************************************************************************)
MaxChunks == 3

sensevoice_optimal_languages == {"zh", "zh-CN", "zh-TW", "yue", "ja", "ko"}
RequestLanguages == {"auto", "zh", "ja", "fr", "en"}
DetectorReports == {"zh", "fr", "error"}

Call(model, language) == [model |-> model, language |-> language]
Frame(success, final) == [success |-> success, final |-> final]

RouteFrame == UNCHANGED <<now, ticks, user_concurrent_downloads, download_progress,
                          progress_timestamps, threads, sess, issued, returned,
                          evicted, ledger_log, whisper, parallel, audio_stream, files,
                          last_read, scan, pipe, janitor>>

\* WhisperTranscriber.detect_language: the likeliest language, "en" on any error
detect_language(report) == IF report = "error" THEN "en" ELSE report

Emit(r, frame) == [r EXCEPT !.frames = Append(@, frame)]
Respond(r, response) == [r EXCEPT !.pc = "responded", !.response = response]

\* `if WHISPER_AVAILABLE and language != 'auto' and language not in ...`
whisper_route(whisper_available, language) ==
    /\ whisper_available
    /\ language # "auto"
    /\ language \notin sensevoice_optimal_languages

\* /transcribe-url up to the choice of the backend
transcribe_url(has_url, language, streaming, sensevoice_available, whisper_available) ==
    /\ router.pc = "idle"
    /\ LET r == [router EXCEPT !.endpoint = "transcribe-url", !.language = language,
                               !.streaming = streaming,
                               !.whisper_available = whisper_available]
       IN  router' =
             IF ~ has_url THEN Respond(r, "400 url")
             ELSE IF ~ sensevoice_available THEN Respond(r, "503")
             ELSE IF whisper_route(whisper_available, language)
                  THEN [r EXCEPT !.pc = IF streaming THEN "wh_setup" ELSE "wh_batch"]
             ELSE IF /\ ~ whisper_available
                     /\ language # "auto"
                     /\ language \notin sensevoice_optimal_languages
                  THEN Respond(r, "400 download_first")
             ELSE [r EXCEPT !.pc = "extract"]
    /\ RouteFrame

\* transcribe_from_url_streaming_whisper_generator called on its own
whisper_generator_call(language) ==
    /\ router.pc = "idle"
    /\ router' = [router EXCEPT !.pc = "wh_setup", !.endpoint = "generator",
                                !.language = language, !.streaming = TRUE,
                                !.whisper_available = TRUE]
    /\ RouteFrame

\* the generator's setup: the transcriber, extract_info, the audio format, ffmpeg
whisper_generator_setup(outcome) ==
    /\ router.pc = "wh_setup"
    /\ router' =
         IF outcome = "ok" THEN [router EXCEPT !.pc = "wh_loop", !.process = "running"]
         ELSE [Emit(router, Frame(FALSE, "true")) EXCEPT !.pc = "closed"]
    /\ RouteFrame

\* a mutation: the detector is asked about every segment
first_chunk_detects_always(chunk_count, language) == language = "auto"

\* `if chunk_count == 1 and language == 'auto'`
first_chunk_detects(chunk_count, language) == chunk_count = 1 /\ language = "auto"

\* one closed segment: detection on the first one when 'auto', then Whisper
WhisperSegment(r, report) ==
    LET chunk_count == r.chunk_count + 1
        detects == first_chunk_detects(chunk_count, r.language)
        detected_language ==
            IF detects THEN detect_language(report) ELSE r.detected_language
        use_language ==
            IF detected_language # "none" THEN detected_language ELSE r.language
    IN  [r EXCEPT !.chunk_count = chunk_count,
                  !.detected_language = detected_language,
                  !.detect_calls = IF detects THEN @ + 1 ELSE @,
                  !.use_language = use_language,
                  !.calls = Append(@, Call("whisper",
                               IF use_language # "auto" THEN use_language ELSE "none"))]

\* the generator closes a segment, transcribes it and yields a chunk frame
\* the length of a segment's text after strip(): 0 also stands for a failed result
MaxTextLen == 2

TextLengths == 0 .. MaxTextLen

\* the generator's `if text:`
generator_keeps(text_len) == text_len > 0

\* the handlers' `if text and len(text) > 1`
response_keeps(text_len) == text_len > 1

\* what a backend returns for a chunk, after strip(): a word of the given length
Words == <<"a", "b", "c">>

segment_text(chunk_count, text_len) ==
    IF text_len = 0 THEN ""
    ELSE IF text_len = 1 THEN Words[chunk_count]
    ELSE Words[chunk_count] \o Words[chunk_count]

RECURSIVE join(_)
\* ' '.join(texts)
join(texts) ==
    IF texts = <<>> THEN ""
    ELSE IF Len(texts) = 1 THEN texts[1]
    ELSE texts[1] \o " " \o join(Tail(texts))

\* a mutation: the final frame carries only the last text
last_text_only(total_transcript) ==
    IF total_transcript = <<>> THEN "" ELSE total_transcript[Len(total_transcript)]

\* the 'transcript' of the final frame
full_transcript(total_transcript) == join(total_transcript)

\* `total_transcript.append(text)` and the chunk frame that carries the text
Keep(r, text) ==
    [Emit(r, Frame(TRUE, "false")) EXCEPT !.total_transcript = Append(@, text),
                                          !.sent = Append(@, text)]

\* the final frame of a stream that ended without an exception, after process.wait()
Final(r) ==
    [Emit(r, Frame(TRUE, "true")) EXCEPT
        !.pc = "closed",
        !.process = "exited",
        !.final_data = [transcript |-> full_transcript(r.total_transcript),
                        chunks_processed |-> r.chunk_count]]

\* the except of the segment loop: process.terminate() and the error frame
Failed(r) ==
    [Emit(r, Frame(FALSE, "true")) EXCEPT !.pc = "closed", !.process = "terminated"]

whisper_generator_segment(report, text_len) ==
    /\ router.pc = "wh_loop"
    /\ router.chunk_count < MaxChunks
    /\ LET r == [WhisperSegment(router, report) EXCEPT !.texts = Append(@, text_len)]
       IN  router' = IF generator_keeps(text_len)
                     THEN Keep(r, segment_text(r.chunk_count, text_len))
                     ELSE r
    /\ RouteFrame

\* the generator's last frame: the whole transcript, or the error of its except
whisper_generator_end(ok) ==
    /\ router.pc = "wh_loop"
    /\ router' = IF ok THEN Final(router) ELSE Failed(router)
    /\ RouteFrame

\* transcribe_from_url_with_whisper(url, language, streaming=True): a segment
whisper_batch_segment(report) ==
    /\ router.pc = "wh_batch"
    /\ router.chunk_count < MaxChunks
    /\ router' = WhisperSegment(router, report)
    /\ RouteFrame

\* its result: success is returned, a failure falls through to SenseVoice
whisper_batch_return(success) ==
    /\ router.pc = "wh_batch"
    /\ router' = IF success THEN Respond(router, "200")
                 ELSE [router EXCEPT !.pc = "extract"]
    /\ RouteFrame

\* extract_info and the choice of the audio format
transcribe_url_extract(outcome) ==
    /\ router.pc = "extract"
    /\ router' =
         IF outcome = "no_audio" THEN Respond(router, "400 no audio")
         ELSE IF outcome = "exception" THEN Respond(router, "500")
         ELSE [router EXCEPT !.pc = IF router.streaming THEN "sv_init" ELSE "sv_batch",
                             !.chunk_count = 0]
    /\ RouteFrame

\* generate_streaming_response before its loop: ffmpeg and the Whisper detector
generate_streaming_response_init(popen_ok, init_ok) ==
    /\ router.pc = "sv_init"
    /\ LET use_language == IF router.language # "auto" THEN router.language ELSE "none"
           wants_whisper == router.language = "auto" /\ router.whisper_available
       IN  router' =
             IF ~ popen_ok THEN [router EXCEPT !.pc = "closed"]
             ELSE [router EXCEPT
                     !.pc = "sv_loop",
                     !.process = "running",
                     !.detected_language = "none",
                     !.whisper_transcriber = wants_whisper /\ init_ok,
                     !.use_language =
                         IF wants_whisper /\ ~ init_ok THEN "zh" ELSE use_language]
    /\ RouteFrame

\* one chunk of generate_streaming_response's loop that is longer than a second
generate_streaming_response_chunk(report, text_len) ==
    /\ router.pc = "sv_loop"
    /\ router.chunk_count < MaxChunks
    /\ LET chunk_count == router.chunk_count + 1
           detects == /\ first_chunk_detects(chunk_count, router.language)
                      /\ router.whisper_transcriber
           detected_language ==
               IF detects THEN detect_language(report) ELSE router.detected_language
           to_sensevoice == detected_language \in sensevoice_optimal_languages
           use_language ==
               IF detects /\ to_sensevoice THEN detected_language
               ELSE router.use_language
           to_whisper == /\ detected_language # "none"
                         /\ ~ to_sensevoice
                         /\ router.whisper_transcriber
           call == IF to_whisper THEN Call("whisper", detected_language)
                   ELSE Call("sensevoice",
                             IF use_language # "none" THEN use_language ELSE "zh")
           r == [router EXCEPT !.chunk_count = chunk_count,
                               !.detected_language = detected_language,
                               !.detect_calls = IF detects THEN @ + 1 ELSE @,
                               !.use_language = use_language,
                               !.calls = Append(@, call),
                               !.texts = Append(@, text_len)]
       IN  router' = IF response_keeps(text_len)
                     THEN Keep(r, segment_text(chunk_count, text_len))
                     ELSE r
    /\ RouteFrame

\* the end of the audio, or an exception inside the loop: the last frame
generate_streaming_response_end(ok) ==
    /\ router.pc = "sv_loop"
    /\ router' = IF ok THEN Final(router) ELSE Failed(router)
    /\ RouteFrame

\* the producer is suspended at the yield of a chunk frame
AtYield(keeps(_)) ==
    /\ router.texts # <<>>
    /\ keeps(router.texts[Len(router.texts)])

\* the reader closes the event stream: GeneratorExit is raised at the yield; the
\* generator's `finally` terminates ffmpeg
whisper_generator_closed_by_reader ==
    /\ router.pc = "wh_loop"
    /\ AtYield(generator_keeps)
    /\ router' = [router EXCEPT !.pc = "abandoned", !.process = "terminated"]
    /\ RouteFrame

\* the same in generate_streaming_response: `except Exception` does not catch
\* GeneratorExit and there is no `finally`, so nothing is done to the process
generate_streaming_response_closed_by_reader ==
    /\ router.pc = "sv_loop"
    /\ AtYield(response_keeps)
    /\ router' = [router EXCEPT !.pc = "abandoned"]
    /\ RouteFrame

\* one chunk of the non-streaming loop: always SenseVoice
transcribe_url_batch_chunk ==
    /\ router.pc = "sv_batch"
    /\ router.chunk_count < MaxChunks
    /\ LET use_language == IF router.language = "auto" THEN "zh" ELSE router.language
       IN  router' = [router EXCEPT !.chunk_count = @ + 1,
                                    !.use_language = use_language,
                                    !.calls = Append(@, Call("sensevoice", use_language))]
    /\ RouteFrame

\* the JSON answer of the non-streaming path, or the handler's except
transcribe_url_batch_return(ok) ==
    /\ router.pc = "sv_batch"
    /\ router' = Respond(router, IF ok THEN "200" ELSE "500")
    /\ RouteFrame

\* /transcribe with streaming: transcribe_with_sensevoice_streaming's frames
transcribe_audio(language) ==
    /\ router.pc = "idle"
    /\ router' = [router EXCEPT !.pc = "file_loop", !.endpoint = "transcribe",
                                !.language = language, !.streaming = TRUE]
    /\ RouteFrame

\* SenseVoiceTranscriber.transcribe_streaming yields a segment's result
transcribe_streaming_segment(success) ==
    /\ router.pc = "file_loop"
    /\ router.chunk_count < MaxChunks
    /\ router' = [Emit(router, Frame(success, "absent")) EXCEPT
                    !.chunk_count = @ + 1,
                    !.calls = Append(@, Call("sensevoice",
                                 IF router.language # "auto" THEN router.language
                                 ELSE "none"))]
    /\ RouteFrame

\* it ends: after the last segment, or with the error frame of its except
transcribe_streaming_end(ok) ==
    /\ router.pc = "file_loop"
    /\ router' = IF ok THEN [router EXCEPT !.pc = "closed"]
                 ELSE [Emit(router, Frame(FALSE, "absent")) EXCEPT !.pc = "closed"]
    /\ RouteFrame

\* model.generate (or the ffmpeg cut before it) raises on a segment: the try has
\* only a finally, so the generator's outer except yields the error and returns
transcribe_streaming_raises ==
    /\ router.pc = "file_loop"
    /\ router.chunk_count < MaxChunks
    /\ router' = [Emit(router, Frame(FALSE, "absent")) EXCEPT
                    !.pc = "closed",
                    !.chunk_count = @ + 1,
                    !.calls = Append(@, Call("sensevoice",
                                 IF router.language # "auto" THEN router.language
                                 ELSE "none"))]
    /\ RouteFrame

NextRoute ==
    \/ \E has_url \in BOOLEAN, language \in RequestLanguages, streaming \in BOOLEAN,
          sensevoice_available \in BOOLEAN, whisper_available \in BOOLEAN :
          transcribe_url(has_url, language, streaming, sensevoice_available,
                         whisper_available)
    \/ \E language \in RequestLanguages : whisper_generator_call(language)
    \/ \E outcome \in {"ok", "no_audio", "exception"} : whisper_generator_setup(outcome)
    \/ \E report \in DetectorReports, text_len \in TextLengths :
          whisper_generator_segment(report, text_len)
    \/ \E ok \in BOOLEAN : whisper_generator_end(ok)
    \/ \E report \in DetectorReports : whisper_batch_segment(report)
    \/ \E success \in BOOLEAN : whisper_batch_return(success)
    \/ \E outcome \in {"ok", "no_audio", "exception"} : transcribe_url_extract(outcome)
    \/ \E popen_ok \in BOOLEAN, init_ok \in BOOLEAN :
          generate_streaming_response_init(popen_ok, init_ok)
    \/ \E report \in DetectorReports, text_len \in TextLengths :
          generate_streaming_response_chunk(report, text_len)
    \/ \E ok \in BOOLEAN : generate_streaming_response_end(ok)
    \/ transcribe_url_batch_chunk
    \/ \E ok \in BOOLEAN : transcribe_url_batch_return(ok)
    \/ \E language \in RequestLanguages : transcribe_audio(language)
    \/ \E success \in BOOLEAN : transcribe_streaming_segment(success)
    \/ \E ok \in BOOLEAN : transcribe_streaming_end(ok)
    \/ transcribe_streaming_raises
    \/ whisper_generator_closed_by_reader
    \/ generate_streaming_response_closed_by_reader

SpecRoute == Init /\ [][NextRoute]_vars

(***************************************************************************)
(* The generator on a given recording: ffmpeg's output is silence, then a  *)
(* tone, then silence, each a whole number of 0.1 s frames.  The frame the *)
(* loop reads next is frame whisper.frames_read + 1 of the recording.      *)
(***************************************************************************)
MaxToneSec == 90

LeadFrames == {0, 3, 15, 25}
ToneFrames == {0, 30, 305, 10 * MaxToneSec}
TrailFrames == {0, 3, 5, 12}

StreamFrames == audio_stream.lead + audio_stream.tone + audio_stream.trail

\* chunk_energy < silence_threshold for frame n of the recording
silent_frame(n) ==
    n <= audio_stream.lead \/ n > audio_stream.lead + audio_stream.tone

\* subprocess.Popen(ffmpeg_cmd): the recording the pipe will deliver
open_audio_stream(lead, tone, trail) ==
    /\ audio_stream.pc = "closed"
    /\ audio_stream' = [pc |-> "open", lead |-> lead, tone |-> tone, trail |-> trail]
    /\ UNCHANGED <<now, ticks, user_concurrent_downloads, download_progress,
                   progress_timestamps, threads, sess, issued, returned, evicted,
                   ledger_log, whisper, parallel, router, files, last_read, scan, pipe, janitor>>

\* process.stdout.read(chunk_size) returns the next frame of the recording
whisper_read_stream(result) ==
    /\ audio_stream.pc = "open"
    /\ whisper.frames_read < StreamFrames
    /\ whisper_read_chunk(silent_frame(whisper.frames_read + 1), result)

\* process.stdout.read(chunk_size) returns nothing: the recording is over
whisper_stream_ends(result) ==
    /\ audio_stream.pc = "open"
    /\ whisper.frames_read = StreamFrames
    /\ whisper_end_of_stream(result)

NextSplit ==
    \/ \E lead \in LeadFrames, tone \in ToneFrames, trail \in TrailFrames :
          open_audio_stream(lead, tone, trail)
    \/ \E result \in {"text", "empty"} : whisper_read_stream(result)
    \/ \E result \in {"text", "empty"} : whisper_stream_ends(result)

SpecSplit == Init /\ [][NextSplit]_vars

(***************************************************************************)
(* The janitor: ResourceManager._background_cleanup sleeps, then sweeps    *)
(* every user directory and the progress store.  files is one user's       *)
(* directory: the modification time of each file in it, in ms.             *)
(***************************************************************************)
FileNames == {"a.mp3", "b.mp4"}

\* how long before its arrival a file was last modified (yt-dlp keeps the
\* upload date as the modification time)
FileAges ==
    {0, Ms(max_file_age_hours * 3600) - Ms(cleanup_interval),
     Ms(max_file_age_hours * 3600), Ms(max_file_age_hours * 3600) + 1}

JanitorFrame == UNCHANGED <<user_concurrent_downloads, download_progress,
                            progress_timestamps, threads, sess, issued, returned,
                            evicted, ledger_log, whisper, parallel, router,
                            audio_stream, last_read, scan, pipe, janitor>>

\* a download leaves a file in the user's directory, creating the directory
file_written(name, age) ==
    /\ files' = [files EXCEPT !.exists = TRUE,
                              !.mtime = Put(@, name, now - age),
                              !.pc = "written"]
    /\ UNCHANGED <<now, ticks>>
    /\ JanitorFrame

\* time.sleep(self.cleanup_interval)
janitor_sleep ==
    /\ ticks < MaxTicks
    /\ now' = now + Ms(cleanup_interval)
    /\ ticks' = ticks + 1
    /\ UNCHANGED files
    /\ JanitorFrame

\* a mutation: a file modified exactly at the cutoff counts as old
is_old_or_at_cutoff(mtime, cutoff_time) == mtime <= cutoff_time

\* `if mtime < cutoff_time`
is_old(mtime, cutoff_time) == mtime < cutoff_time

\* cleanup_user_files(user_id).  After the loop over the old files the
\* `while` reads self.max_user_files, which nothing sets: the AttributeError
\* goes to the function's except, and the statements after the loop (the
\* removal of excess files and of the empty directory) do not run.
cleanup_user_files ==
    /\ files.passes < MaxPasses
    /\ LET cutoff_time == now - Ms(max_file_age_hours * 3600)
           files_with_time == files.mtime
           old == {f \in DOMAIN files_with_time :
                       is_old(files_with_time[f], cutoff_time)}
       IN  files' =
             IF ~ files.exists
             THEN [files EXCEPT !.pc = "swept", !.passes = @ + 1,
                                !.swept_at = now, !.cutoff_time = cutoff_time,
                                !.files_with_time = EmptyDict,
                                !.files_removed = 0, !.error = "none"]
             ELSE [files EXCEPT !.mtime = [f \in DOMAIN files_with_time \ old |->
                                               files_with_time[f]],
                                !.pc = "swept", !.passes = @ + 1,
                                !.swept_at = now, !.cutoff_time = cutoff_time,
                                !.files_with_time = files_with_time,
                                !.files_removed = Cardinality(old),
                                !.error = "AttributeError"]
    /\ UNCHANGED <<now, ticks>>
    /\ JanitorFrame

NextJanitor ==
    \/ \E name \in FileNames, age \in FileAges : file_written(name, age)
    \/ janitor_sleep
    \/ cleanup_user_files

SpecJanitor == Init /\ [][NextJanitor]_vars

(***************************************************************************)
(* The janitor's sweep of the progress store, beside the cleanup every     *)
(* GET /progress runs.                                                     *)
(***************************************************************************)
\* cleanup_memory: drop the entries stamped more than an hour ago
cleanup_memory ==
    /\ download_progress' =
           PopAll(download_progress, OldKeys(progress_timestamps, now, old_threshold))
    /\ progress_timestamps' =
           PopAll(progress_timestamps, OldKeys(progress_timestamps, now, old_threshold))
    /\ evicted' = evicted \cup OldKeys(progress_timestamps, now, old_threshold)
    /\ UNCHANGED <<now, ticks, user_concurrent_downloads, threads, sess, issued,
                   returned, ledger_log, whisper, parallel, router, audio_stream,
                   files, last_read, scan, pipe, janitor>>

\* the time that passes between two steps: a millisecond, or a threshold
EvictionTicks == {1, Ms(ReadCleanupSec), Ms(old_threshold)}

NextEvict ==
    \/ \E u \in Users, has_url \in BOOLEAN : download_submit(NumReqs, u, has_url)
    \/ RequestSteps
    \/ JobSteps
    \/ WorkerSteps
    \/ \E k \in PollKeys : get_progress(k)
    \/ cleanup_memory
    \/ \E d \in EvictionTicks : Tick(d)

SpecEvict == Init /\ [][NextEvict]_vars

(***************************************************************************)
(* The ledger, statement by statement.  start_download and finish_download *)
(* take no lock: `d[u] += 1` and `d[u] = max(0, d[u] - 1)` read the        *)
(* counter, compute, then store, and another thread may run in between.    *)
(* A caller record holds the value its thread has read (current).          *)
(***************************************************************************)
NumCallers == 2

LedgerCaller(u) == [pc |-> "start_test", user |-> u, current |-> 0]

CallerFrame == UNCHANGED <<now, ticks, download_progress, progress_timestamps, sess,
                           issued, returned, evicted, ledger_log, whisper, parallel,
                           router, audio_stream, files, last_read, scan, pipe, janitor>>

\* download() reaches resource_manager.start_download(user_id)
caller_arrives(u) ==
    /\ BagCardinality(threads) < NumCallers
    /\ threads' = threads (+) SetToBag({LedgerCaller(u)})
    /\ UNCHANGED user_concurrent_downloads
    /\ CallerFrame

\* start_download, one statement at a time; a missing key raises KeyError
start_download_step(t) ==
    /\ t.pc \in {"start_test", "start_init", "start_read", "start_write"}
    /\ LET d == user_concurrent_downloads
           present == t.user \in DOMAIN d
       IN  CASE t.pc = "start_test" ->
                  /\ Becomes(t, [t EXCEPT !.pc = IF present THEN "start_read"
                                                 ELSE "start_init"])
                  /\ UNCHANGED user_concurrent_downloads
             [] t.pc = "start_init" ->
                  /\ user_concurrent_downloads' = Put(d, t.user, 0)
                  /\ Becomes(t, [t EXCEPT !.pc = "start_read"])
             [] t.pc = "start_read" ->
                  /\ Becomes(t, IF present
                                THEN [t EXCEPT !.pc = "start_write", !.current = d[t.user]]
                                ELSE [t EXCEPT !.pc = "raised"])
                  /\ UNCHANGED user_concurrent_downloads
             [] t.pc = "start_write" ->
                  /\ user_concurrent_downloads' = Put(d, t.user, t.current + 1)
                  /\ Becomes(t, [t EXCEPT !.pc = "running", !.current = 0])
    /\ CallerFrame

\* download_video's finally reaches resource_manager.finish_download(user_id)
caller_finishes(t) ==
    /\ t.pc = "running"
    /\ Becomes(t, [t EXCEPT !.pc = "finish_test"])
    /\ UNCHANGED user_concurrent_downloads
    /\ CallerFrame

\* finish_download, one statement at a time; a missing key raises KeyError
finish_download_step(t) ==
    /\ t.pc \in {"finish_test", "finish_read", "finish_write", "finish_zero", "finish_del"}
    /\ LET d == user_concurrent_downloads
           present == t.user \in DOMAIN d
           ended == [t EXCEPT !.pc = "ended", !.current = 0]
       IN  CASE t.pc = "finish_test" ->
                  /\ Becomes(t, IF present THEN [t EXCEPT !.pc = "finish_read"] ELSE ended)
                  /\ UNCHANGED user_concurrent_downloads
             [] t.pc = "finish_read" ->
                  /\ Becomes(t, IF present
                                THEN [t EXCEPT !.pc = "finish_write", !.current = d[t.user]]
                                ELSE ended)
                  /\ UNCHANGED user_concurrent_downloads
             [] t.pc = "finish_write" ->
                  /\ user_concurrent_downloads' = Put(d, t.user, Max(0, t.current - 1))
                  /\ Becomes(t, [t EXCEPT !.pc = "finish_zero", !.current = 0])
             [] t.pc = "finish_zero" ->
                  /\ Becomes(t, IF present /\ d[t.user] = 0
                                THEN [t EXCEPT !.pc = "finish_del"] ELSE ended)
                  /\ UNCHANGED user_concurrent_downloads
             [] t.pc = "finish_del" ->
                  /\ user_concurrent_downloads' = Del(d, t.user)
                  /\ Becomes(t, ended)
    /\ CallerFrame

NextRace ==
    \/ \E u \in Users : caller_arrives(u)
    \/ \E t \in Threads : start_download_step(t)
    \/ \E t \in Threads : caller_finishes(t)
    \/ \E t \in Threads : finish_download_step(t)

SpecRace == Init /\ [][NextRace]_vars

(***************************************************************************)
(* GET /progress, statement by statement.  cleanup_old_progress iterates   *)
(* progress_timestamps.items() while other threads insert and pop keys; a  *)
(* dictionary iterator remembers the size it started with (used) and       *)
(* raises RuntimeError when the dictionary's size has changed at its next  *)
(* step.  Nothing in get_progress catches it.                              *)
(***************************************************************************)
ScanFrame == UNCHANGED <<now, ticks, user_concurrent_downloads, threads, sess, issued,
                         returned, ledger_log, whisper, parallel, router, audio_stream,
                         files, pipe, janitor>>

\* get_progress enters cleanup_old_progress: current_time, old_keys = [], iter(items())
scan_begin(download_id) ==
    /\ scan.pc \in {"idle", "answered", "raised"}
    /\ scan' = [pc |-> "iterating", download_id |-> download_id, current_time |-> now,
                used |-> Cardinality(DOMAIN progress_timestamps), visited |-> {},
                old_keys |-> {}, status |-> "none"]
    /\ UNCHANGED <<download_progress, progress_timestamps, evicted, last_read>>
    /\ ScanFrame

\* one step of `for download_id, timestamp in progress_timestamps.items()`
scan_next ==
    /\ scan.pc = "iterating"
    /\ LET left == (DOMAIN progress_timestamps) \ scan.visited
       IN  IF Cardinality(DOMAIN progress_timestamps) # scan.used
           THEN scan' = [scan EXCEPT !.pc = "raised"]
           ELSE IF left = {}
           THEN scan' = [scan EXCEPT !.pc = "popping"]
           ELSE \E k \in left :
                  scan' = [scan EXCEPT
                             !.visited = @ \cup {k},
                             !.old_keys = @ \cup OldKeys([x \in {k} |-> progress_timestamps[k]],
                                                         scan.current_time, ReadCleanupSec)]
    /\ UNCHANGED <<download_progress, progress_timestamps, evicted, last_read>>
    /\ ScanFrame

\* the pops of the old keys, then download_progress.get(download_id, not_found)
scan_answer ==
    /\ scan.pc = "popping"
    /\ download_progress' = PopAll(download_progress, scan.old_keys)
    /\ progress_timestamps' = PopAll(progress_timestamps, scan.old_keys)
    /\ evicted' = evicted \cup scan.old_keys
    /\ last_read' = now
    /\ scan' = [scan EXCEPT
                  !.pc = "answered",
                  !.status = progress_get(download_progress', scan.download_id).status]
    /\ ScanFrame

ScanKeys == issued \cup {DownloadKey(0 - 1)}

NextScan ==
    \/ \E u \in Users, has_url \in BOOLEAN : download_submit(NumReqs, u, has_url)
    \/ RequestSteps
    \/ JobSteps
    \/ WorkerSteps
    \/ cleanup_memory
    \/ \E download_id \in ScanKeys : scan_begin(download_id)
    \/ scan_next
    \/ scan_answer
    \/ \E d \in EvictionTicks : Tick(d)

SpecScan == Init /\ [][NextScan]_vars

(***************************************************************************)
(* The janitor beside a running job.  files is the directory               *)
(* downloads/<user_id> of the user below; download_video works in it from  *)
(* its mkdir to its last status write, and cleanup_user_files sweeps it    *)
(* whenever the janitor wakes, without looking at any job.                 *)
(***************************************************************************)
files_user_id == "u1"

TreeFiles == {"a.mp3"}

NextTree ==
    \/ \E has_url \in BOOLEAN : download_submit(NumReqs, files_user_id, has_url)
    \/ RequestSteps
    \/ JobSteps
    \/ WorkerSteps
    \/ \E name \in TreeFiles, age \in FileAges : file_written(name, age)
    \/ janitor_sleep
    \/ cleanup_user_files

SpecTree == Init /\ [][NextTree]_vars

(***************************************************************************)
(* The same program with the scheduler's guarantees: a request thread and  *)
(* a job thread that can take a step eventually take it, and time passes.  *)
(* The worker runs an external tool (yt-dlp's extractor and downloader),   *)
(* which may never return: nothing is assumed about its steps.             *)
(***************************************************************************)
SpecHung ==
    /\ Init
    /\ [][Next]_vars
    /\ WF_vars(RequestSteps)
    /\ WF_vars(JobSteps)
    /\ WF_vars(\E d \in TickSteps : Tick(d))

(***************************************************************************)
(* generate_streaming_response's reader: ffmpeg's pipe is read in pipe   *)
(* of 30 s; the last read returns what is left, and an empty read ends the *)
(* loop.  pipe.left is what the pipe still holds, in samples.            *)
(***************************************************************************)
MaxPipeFrames == 620

PipeLengths == {k * read_samples + extra : k \in 0 .. MaxPipeFrames, extra \in {0, 1}}

chunk_size == sample_rate * 30

PipeFrame == UNCHANGED <<now, ticks, user_concurrent_downloads, download_progress,
                         progress_timestamps, threads, sess, issued, returned, evicted,
                         ledger_log, whisper, parallel, router, audio_stream, files,
                         last_read, scan, janitor>>

\* subprocess.Popen(ffmpeg_cmd, stdout=PIPE): the audio the pipe will deliver
pipe_open(samples) ==
    /\ pipe.pc = "closed"
    /\ pipe' = [pipe EXCEPT !.pc = "open", !.left = samples]
    /\ PipeFrame

\* `if len(audio_chunk) > 16000`
long_enough(samples) == samples > sample_rate

\* one pass of the loop: read(chunk_size * 2), break on nothing, transcribe or skip
pipe_read ==
    /\ pipe.pc = "open"
    /\ LET chunk == IF pipe.left < chunk_size THEN pipe.left ELSE chunk_size
       IN  pipe' =
             IF chunk = 0 THEN [pipe EXCEPT !.pc = "ended"]
             ELSE IF long_enough(chunk)
             THEN [pipe EXCEPT !.left = @ - chunk, !.chunk_count = @ + 1,
                                 !.transcribed = Append(@, chunk)]
             ELSE [pipe EXCEPT !.left = @ - chunk, !.skipped = Append(@, chunk)]
    /\ PipeFrame

NextPipe ==
    \/ \E samples \in PipeLengths : pipe_open(samples)
    \/ pipe_read

SpecPipe == Init /\ [][NextPipe]_vars

(***************************************************************************)
(* The janitor's cycle: _background_cleanup sleeps, cleanup_all_users      *)
(* lists the user directories and calls cleanup_user_files for each, then  *)
(* the progress store is swept.  janitor.raised records, for every         *)
(* directory handled in the cycle, where its sweep raised an exception.    *)
(***************************************************************************)
MaxCycles == 2

\* where cleanup_user_files can raise: listing the directory, stat and unlink
\* of a file, the read of self.max_user_files, the rmdir
FailurePoints == {"iterdir", "stat", "unlink", "max_user_files", "rmdir"}

CycleFrame == UNCHANGED <<now, ticks, user_concurrent_downloads, download_progress,
                          progress_timestamps, threads, sess, issued, returned, evicted,
                          ledger_log, whisper, parallel, router, audio_stream, files,
                          last_read, scan, pipe>>

\* time.sleep(self.cleanup_interval) returns; downloads_dir.iterdir() lists users
background_cleanup_wakes(user_dirs) ==
    /\ janitor.pc = "sleeping"
    /\ janitor.cycles < MaxCycles
    /\ janitor' = [janitor EXCEPT !.pc = "sweeping", !.todo = user_dirs,
                                  !.raised = EmptyDict, !.escaped = FALSE]
    /\ CycleFrame

\* a mutation: only the handlers around stat and unlink catch anything
caught_by_inner_handlers(point) == point \in {"stat", "unlink"}

\* cleanup_user_files: `except (OSError, FileNotFoundError): pass` around stat
\* and unlink, `except Exception` around the whole sweep
caught(point) == point \in {"stat", "unlink"} \/ point \in FailurePoints

\* cleanup_user_files(user_dir.name) for the next directory of the listing
cleanup_all_users_step(u, point) ==
    /\ janitor.pc = "sweeping"
    /\ u \in janitor.todo
    /\ janitor' =
         IF point = "none" \/ caught(point)
         THEN [janitor EXCEPT !.todo = @ \ {u}, !.raised = Put(@, u, point)]
         ELSE [janitor EXCEPT !.pc = "sleeping", !.cycles = @ + 1,
                              !.raised = Put(@, u, point), !.escaped = TRUE]
    /\ CycleFrame

\* the listing is exhausted: cleanup_memory, the statistics, the next sleep
background_cleanup_sleeps ==
    /\ janitor.pc = "sweeping"
    /\ janitor.todo = {}
    /\ janitor' = [janitor EXCEPT !.pc = "sleeping", !.cycles = @ + 1]
    /\ CycleFrame

NextCycle ==
    \/ \E user_dirs \in SUBSET Users : background_cleanup_wakes(user_dirs)
    \/ \E u \in Users, point \in FailurePoints \cup {"none"} :
          cleanup_all_users_step(u, point)
    \/ background_cleanup_sleeps

SpecCycle == Init /\ [][NextCycle]_vars

(***************************************************************************)
(* Two downloads side by side, from the request to the last status write,  *)
(* with workers that return in time.                                       *)
(***************************************************************************)
NumPairReqs == 2

NextPair ==
    \/ \E u \in Users, has_url \in BOOLEAN : download_submit(NumPairReqs, u, has_url)
    \/ RequestSteps
    \/ \E t \in Threads : job_initializing(t)
    \/ \E t \in Threads, ok \in BOOLEAN : job_mkdir(t, ok)
    \/ \E t \in Threads : job_preparing(t)
    \/ \E t \in Threads : job_starting(t)
    \/ \E t \in Threads : job_downloading(t)
    \/ \E t \in Threads : job_submit_worker(t)
    \/ \E t \in Threads : job_worker_returned(t)
    \/ \E t \in Threads : job_check_result(t)
    \/ \E t \in Threads, ok \in BOOLEAN : job_list_files(t, ok)
    \/ \E t \in Threads : job_converting(t)
    \/ \E t \in Threads, ok \in BOOLEAN : job_record_files(t, ok)
    \/ \E t \in Threads : job_finished(t)
    \/ \E t \in Threads : job_exception(t)
    \/ \E t \in Threads : download_video_finally(t)
    \/ WorkerSteps

SpecPair == Init /\ [][NextPair]_vars
(***************************************************************************)
(* Properties.                                                             *)
(***************************************************************************)
\* the number of threads of the bag that lie in S
Copies(S) == BagCardinality([t \in S |-> threads[t]])

Unfinished(u) ==
    {t \in Threads : t.user = u /\ t.began /\ t.jpc # "j_done" /\ t.pc # "resp500"}

\* C1: for every user, under any interleaving of /download submissions and job
\* completions, the number of the user's admitted, unfinished jobs and the stored
\* counter user_concurrent_downloads[user] never exceed max_concurrent_downloads.
C1_AtMostMaxConcurrent ==
    \A u \in Users :
        /\ Copies(Unfinished(u)) <= max_concurrent_downloads
        /\ Get(user_concurrent_downloads, u, 0) <= max_concurrent_downloads

Ended(t) ==
    /\ t.pc \in {"resp200", "resp500"}
    /\ t.jpc \in {"none", "j_done"}

\* C2: every job for which start_download ran has finish_download called exactly
\* once on every exit path after it, a failure of download() between start_download
\* and the start of the job thread included; and never more than once.
C2_FinishOncePerStart ==
    \A t \in Threads :
        /\ t.finish_calls <= (IF t.began THEN 1 ELSE 0)
        /\ (t.began /\ Ended(t)) => t.finish_calls = 1

MoreCopies(t) == CopiesIn(t, threads') > CopiesIn(t, threads)

FewerCopies(t) == CopiesIn(t, threads') < CopiesIn(t, threads)

\* C3: a /download submission that is rejected with 400, 429 or 503 creates no job:
\* the step that rejects it writes nothing to download_progress or
\* progress_timestamps, leaves the ledger as it is and starts no job thread, and the
\* request never drew an id or ran start_download; a submission whose
\* can_start_download check finds the user's counter at the maximum (or above) is
\* always rejected with 429.
C3_RejectionCreatesNoJob ==
    [][/\ \A t \in BagToSet(threads') :
              (Rejected(t) /\ MoreCopies(t)) =>
                  /\ UNCHANGED <<download_progress, progress_timestamps,
                                 user_concurrent_downloads, ledger_log, issued>>
                  /\ t.download_id = None
                  /\ ~ t.began
                  /\ t.jpc = "none"
       /\ \A t \in Threads :
              (/\ t.pc = "can_start"
               /\ Get(user_concurrent_downloads, t.user, 0) >= max_concurrent_downloads
               /\ FewerCopies(t)) =>
                  MoreCopies([t EXCEPT !.pc = "resp429"])]_vars

C3_Witness ==
    \E t \in Threads :
        /\ t.pc = "resp429"
        /\ Get(user_concurrent_downloads, t.user, 0) = max_concurrent_downloads
        /\ DOMAIN download_progress # {}

\* C4: after any sequence of start_download and finish_download calls, finish_download
\* called more often than start_download or for an absent user included, no stored
\* per-user counter is negative or zero.
C4_NoStoredCounterBelowOne ==
    \A u \in DOMAIN user_concurrent_downloads : user_concurrent_downloads[u] >= 1

C4_Witness ==
    \E u \in Users, v \in Users :
        /\ ledger_log[u].starts >= 1
        /\ ledger_log[u].finishes > ledger_log[u].starts
        /\ u \notin DOMAIN user_concurrent_downloads
        /\ ledger_log[v].starts = 0
        /\ ledger_log[v].finishes >= 1
        /\ v \notin DOMAIN user_concurrent_downloads

Terminal(status_dict) == status_dict.status \in {"finished", "error"}

\* C5: once a job's status in the progress store is 'finished' or 'error', no later
\* write changes it to another status, the 'error' of the 180 s timeout included.
C5_TerminalStatusStays ==
    [][\A k \in (DOMAIN download_progress) \cap (DOMAIN download_progress') :
           Terminal(download_progress[k]) =>
               download_progress'[k].status = download_progress[k].status]_vars

Rank(status) ==
    CASE status = "initializing" -> 1
      [] status = "preparing" -> 2
      [] status = "starting" -> 3
      [] status = "downloading" -> 4
      [] status = "processing" -> 5
      [] status = "converting" -> 6
      [] OTHER -> 7

\* C6: the status of a job in the progress store never moves backwards in the order
\* initializing, preparing, (starting,) downloading, processing, (converting,)
\* finished or error, under any interleaving of the monitor loop and the ProgressHook.
C6_StatusNeverMovesBack ==
    [][\A k \in (DOMAIN download_progress) \cap (DOMAIN download_progress') :
           Rank(download_progress'[k].status) >= Rank(download_progress[k].status)]_vars

\* C7: once /download has returned a download_id, a progress poll for that id never
\* answers 'not_found', as long as the entry has not been evicted.
C7_ReturnedIdIsKnown ==
    \A k \in returned :
        (k \notin evicted /\ k \notin OldKeys(progress_timestamps, now, ReadCleanupSec))
            => get_progress_answer(k).status # "not_found"

C9_TimeoutStopsWorker ==
    \A t \in Threads : t.timed_out => ~ t.late_worker

StrictlyIncreasing(s) == \A i \in 1..(Len(s) - 1) : s[i] < s[i + 1]

\* C10: within one transcription job the segment number grows by exactly one per
\* closed segment, no number is yielded twice, and the chunk frames yielded and the
\* texts appended to the transcript carry strictly increasing segment numbers,
\* whatever the order in which the backend calls complete.
C10_SegmentNumbersInOrder ==
    /\ whisper.chunk_count = whisper.closed
    /\ StrictlyIncreasing(whisper.yielded)
    /\ StrictlyIncreasing(whisper.transcripts)
    /\ \A i \in DOMAIN whisper.yielded : whisper.yielded[i] \in 1..whisper.chunk_count
    /\ parallel.pc = "done" =>
           /\ Len(parallel.results) = parallel.chunks
           /\ StrictlyIncreasing([i \in DOMAIN parallel.results |->
                                      parallel.results[i].index])
           /\ StrictlyIncreasing(parallel.transcript)

C10_Witness ==
    /\ whisper.pc = "final"
    /\ Len(whisper.yielded) >= 2
    /\ whisper.chunk_count > Len(whisper.yielded)
    /\ parallel.pc = "done"
    /\ parallel.chunks >= 3
    /\ parallel.completed[1] > parallel.completed[2]


(***************************************************************************)
(* Properties of the transcription routing.                                *)
(***************************************************************************)
AllCalls(model, language) ==
    \A i \in DOMAIN router.calls : router.calls[i] = Call(model, language)

\* C11: with language 'auto' the detector is invoked at most once per job, on
\* the first transcribed segment; when it reports a language outside the
\* SenseVoice set, that segment and every later one go to Whisper with the
\* reported language, and backend and language are the same for all segments.
C11_AutoDetectsOnceAndRoutesOnce ==
    (router.endpoint \in {"transcribe-url", "generator"} /\ router.language = "auto") =>
        /\ router.detect_calls <= 1
        /\ router.detect_calls = 1 => router.chunk_count >= 1
        /\ router.chunk_count = 0 => router.detect_calls = 0
        /\ ( /\ router.detect_calls = 1
             /\ router.detected_language \notin sensevoice_optimal_languages )
           => AllCalls("whisper", router.detected_language)
        /\ \A i, j \in DOMAIN router.calls : router.calls[i] = router.calls[j]

C11_Witness ==
    /\ router.endpoint = "transcribe-url"
    /\ router.language = "auto"
    /\ router.detect_calls = 1
    /\ router.detected_language = "fr"
    /\ Len(router.calls) >= 2
    /\ router.pc = "closed"

\* C12: an explicit language of the SenseVoice set sends every segment to
\* SenseVoice with that language; any other explicit language sends every
\* segment to Whisper with that language, never one to SenseVoice, and
\* without Whisper the request ends with the 'download first' error.
C12_ExplicitLanguageRouting ==
    (router.endpoint = "transcribe-url" /\ router.language # "auto") =>
        /\ router.language \in sensevoice_optimal_languages
           => AllCalls("sensevoice", router.language)
        /\ router.language \notin sensevoice_optimal_languages
           => /\ AllCalls("whisper", router.language)
              /\ ( /\ ~ router.whisper_available
                   /\ router.pc = "responded"
                   /\ router.response \notin {"400 url", "503"} )
                 => router.response = "400 download_first"

(***************************************************************************)
(* Properties of the splitter on a given recording.                        *)
(***************************************************************************)
ToneOnly == audio_stream.pc = "open" /\ audio_stream.lead = 0 /\ audio_stream.trail = 0

FramesPerSegment == max_samples \div read_samples

\* the segments a tone of n frames is cut into: full ones, and a rest of a second or more
ToneSegments(n) ==
    (n \div FramesPerSegment)
    + (IF (n % FramesPerSegment) * read_samples >= min_samples THEN 1 ELSE 0)

\* C13: on audio without a silent frame a segment closes exactly when the
\* buffer reaches 30 s, so no segment is longer than 30 s, 90 s of tone give
\* exactly 3 segments, and the end of the stream emits nothing when no audio
\* is left over.
C13_ToneClosesAtThirtySeconds ==
    ToneOnly =>
        /\ whisper.audio_buffer < max_samples
        /\ whisper.pc = "read" =>
              /\ whisper.closed = whisper.frames_read \div FramesPerSegment
              /\ whisper.audio_buffer =
                    (whisper.frames_read % FramesPerSegment) * read_samples
        /\ whisper.pc = "final" =>
              /\ whisper.closed = ToneSegments(audio_stream.tone)
              /\ audio_stream.tone = 900 => whisper.closed = 3
              /\ audio_stream.tone % FramesPerSegment = 0
                 => whisper.closed = audio_stream.tone \div FramesPerSegment

C13_Witness ==
    /\ ToneOnly
    /\ audio_stream.tone = 900
    /\ whisper.pc = "final"
    /\ whisper.closed = 3
    /\ whisper.audio_buffer = 0

\* the first frame of the segment being accumulated, counted from 0
SegmentStart == whisper.frames_read - (whisper.audio_buffer \div read_samples)

\* this step closes a segment that holds at least one frame of the tone
ClosesToneSegment ==
    /\ whisper'.closed = whisper.closed + 1
    /\ SegmentStart < audio_stream.lead + audio_stream.tone
    /\ whisper'.frames_read > audio_stream.lead

Near(a, b) == a - b <= 1 /\ b - a <= 1

\* C14: for silence, then a tone, then silence, the segment that holds the
\* tone starts within one frame of the silence-to-tone transition and ends
\* within one frame of the tone-to-silence transition.
C14_SegmentBoundedByTransitions ==
    [][ ( /\ audio_stream.pc = "open"
          /\ audio_stream.tone > 0
          /\ audio_stream.tone < FramesPerSegment
          /\ audio_stream.trail * read_samples >= silence_samples
          /\ ClosesToneSegment )
        => /\ Near(SegmentStart, audio_stream.lead)
           /\ Near(whisper'.frames_read, audio_stream.lead + audio_stream.tone) ]_vars

(***************************************************************************)
(* Properties of the event streams.                                        *)
(***************************************************************************)
FinalFrames == {i \in DOMAIN router.frames : router.frames[i].final = "true"}

\* C15: every transcription stream (URL streaming through the SenseVoice /
\* Whisper routing, URL streaming through the Whisper generator, file
\* streaming through /transcribe) carries exactly one frame with final = true,
\* on success and on error, and that frame is the last one.
C15_StreamEndsWithOneFinalFrame ==
    /\ \A i \in FinalFrames : i = Len(router.frames)
    /\ router.pc = "closed" => FinalFrames = {Len(router.frames)} /\ router.frames # <<>>

(***************************************************************************)
(* Properties of the janitor's sweep of a user directory.                  *)
(***************************************************************************)
Swept == files.pc = "swept" /\ files.exists

C17_EmptyDirectoryIsRemoved ==
    (files.pc = "swept" /\ DOMAIN files.mtime = {}) => ~ files.exists

(***************************************************************************)
(* Properties of the eviction from the progress store.                     *)
(***************************************************************************)
GoneStatus == (DOMAIN download_progress) \ (DOMAIN download_progress')
GoneStamps == (DOMAIN progress_timestamps) \ (DOMAIN progress_timestamps')

\* C18: a progress record is never evicted, by the cleanup of a read or by the
\* janitor, while its status is not terminal: only records with status
\* 'finished' or 'error' are removed.
C18_OnlyTerminalRecordsEvicted ==
    [][\A k \in GoneStatus : Terminal(download_progress[k])]_vars

\* the entries stamped more than ms milliseconds ago
StampedBefore(ms) ==
    {k \in DOMAIN progress_timestamps : now - progress_timestamps[k] > ms}

C20_JobIdsAreDistinct ==
    \A t \in Threads :
        t.download_id # None =>
            /\ CopiesIn(t, threads) = 1
            /\ \A t2 \in Threads \ {t} : t2.download_id # t.download_id

(***************************************************************************)
(* Concurrent writers, the ledger under interleaving, reads during a       *)
(* scan, timestamps, the janitor against live jobs, hung tools, failing    *)
(* segments, short texts and the splitter's rule.                          *)
(***************************************************************************)
JobThreadWrites(t) == ENABLED job_monitor_timeout(t)

ProgressHookWrites(t) == \E event \in {"downloading", "finished"} : ENABLED progress_hook(t, event)

\* C21: for any job, the job thread and the worker's ProgressHook never both have
\* a write of that job's status enabled in the same state
C21_OneStatusWriterPerJob ==
    \A t \in Threads : ~ (JobThreadWrites(t) /\ ProgressHookWrites(t))

InsideLedgerCall(t) == t.pc \notin {"running", "ended", "raised"}

BegunNotEnded(u) == {t \in Threads : t.user = u /\ t.pc = "running"}

RunningJobs(u) == Copies(BegunNotEnded(u))

\* C22: whenever no thread is inside start_download or finish_download, each user's
\* counter (absent = 0) equals the number of that user's jobs begun and not yet ended
C22_NoLostLedgerUpdate ==
    (\A t \in Threads : ~ InsideLedgerCall(t)) =>
        \A u \in Users : Get(user_concurrent_downloads, u, 0) = RunningJobs(u)

\* C23: a progress read never fails because of a concurrent writer: the scan of
\* progress_timestamps never raises, whatever job threads insert and the janitor removes
C23_ReadNeverRaises == scan.pc # "raised"

StatusWritten ==
    {k \in DOMAIN download_progress' :
        k \notin DOMAIN download_progress \/ download_progress'[k] # download_progress[k]}

\* C24: every step that writes a job's status leaves that job's last-update
\* timestamp equal to the time of the write
C24_StatusWriteRefreshesTimestamp ==
    [][\A k \in StatusWritten :
          k \in DOMAIN progress_timestamps' /\ progress_timestamps'[k] = now]_vars

\* download_video between its mkdir and its terminal status write
LiveJob(t) ==
    t.jpc \in {"j_prep", "j_starting", "j_dl0", "j_submit", "j_wait", "j_check",
               "j_list", "j_post", "j_files", "j_final", "j_except"}

FilesDeleted == (DOMAIN files.mtime) \ (DOMAIN files'.mtime)

\* C25: no step deletes a file of a user's directory, or the directory, while a job
\* of that user is between its directory creation and its terminal status
C25_NoDeletionUnderLiveJob ==
    [][(FilesDeleted # {} \/ (files.exists /\ ~ files'.exists)) =>
          ~ \E t \in Threads : t.user = files_user_id /\ LiveJob(t)]_vars

\* C26: once the monitor loop has declared the 180 s timeout of a job, the job thread
\* ends and the user's ledger slot is released, even if the worker never returns
C26_TimedOutJobReleasesSlot ==
    (\E t \in Threads : t.timed_out) ~>
        (\A t \in Threads : t.timed_out =>
             t.jpc = "j_done" /\ Get(user_concurrent_downloads, t.user, 0) = 0)

BackendCalled == Len(router'.calls) > Len(router.calls)

\* C27: a segment whose backend call fails does not end the job: every step that
\* hands a segment to a backend leaves the request in its loop over the segments
C27_SegmentFailureIsAbsorbed ==
    [][BackendCalled => router'.pc = router.pc]_vars

\* the detector's report on the first segment was its fallback for a failure
DetectionFailed ==
    /\ router.endpoint = "transcribe-url"
    /\ router.language = "auto"
    /\ router.detect_calls > 0
    /\ router.detected_language = detect_language("error")

\* C28: with 'auto', once detection on the first segment has failed the resolved
\* language is 'zh' and every segment has gone to SenseVoice with 'zh'
C28_FailedDetectionFallsBackToChinese ==
    DetectionFailed =>
        /\ router.use_language = "zh"
        /\ \A i \in DOMAIN router.calls : router.calls[i] = Call("sensevoice", "zh")

ChunkFrames == {i \in DOMAIN router.frames : router.frames[i].final = "false"}

LongerTexts == {i \in DOMAIN router.texts : router.texts[i] > 1}

\* C29: on the streaming paths there is exactly one chunk frame for every segment
\* whose trimmed text is longer than one character, and none for any other segment
C29_OneChunkFramePerLongerText ==
    Cardinality(ChunkFrames) = Cardinality(LongerTexts)

FrameRead == whisper'.frames_read = whisper.frames_read + 1

SegmentEmitted == whisper'.closed = whisper.closed + 1

BufferAfterFrame == whisper.audio_buffer + read_samples

SilenceAfterFrame ==
    IF silent_frame(whisper.frames_read + 1)
    THEN whisper.consecutive_silence + read_samples
    ELSE 0

ClosingRule ==
    \/ 2 * SilenceAfterFrame >= sample_rate /\ BufferAfterFrame >= sample_rate
    \/ BufferAfterFrame >= 30 * sample_rate

EmittedLength == IF FrameRead THEN BufferAfterFrame ELSE whisper.audio_buffer

\* C30: after a frame the splitter closes the segment exactly when the silence has
\* lasted 0.5 s with a buffer of at least 1 s, or the buffer has reached 30 s; the
\* buffer never holds more than 30 s, every emitted segment is between 1 s and 30 s
\* long, and the buffer and the silence counter are zero after each such emission
C30_SplitterClosingRule ==
    /\ [][ /\ FrameRead => (SegmentEmitted <=> ClosingRule)
           /\ (FrameRead /\ SegmentEmitted) =>
                 whisper'.audio_buffer = 0 /\ whisper'.consecutive_silence = 0
           /\ SegmentEmitted =>
                 EmittedLength >= sample_rate /\ EmittedLength <= 30 * sample_rate ]_vars
    /\ [](whisper.audio_buffer < 30 * sample_rate)

C30_Witness ==
    /\ audio_stream.lead = 15
    /\ audio_stream.tone = 305
    /\ whisper.frames_read = 310
    /\ whisper.closed = 2
    /\ whisper.audio_buffer = 0
    /\ whisper.consecutive_silence = 0

(***************************************************************************)
(* The end of the audio, conservation of the stream, the janitor's cycle,  *)
(* terminal statuses, recorded files, the final transcript, the ffmpeg     *)
(* subprocess, timestamps of every entry, and the retry of the download.   *)
(***************************************************************************)
\* C31: the audio left at the end of the stream is handed on as a segment exactly
\* when it is at least 1 s long: nothing of 1 s or more is dropped, nothing shorter
\* is transcribed, and nothing is emitted after the end
C31_RemainderEmittedFromOneSecond ==
    /\ \A i \in DOMAIN pipe.skipped : pipe.skipped[i] < sample_rate
    /\ \A i \in DOMAIN pipe.transcribed : pipe.transcribed[i] >= sample_rate
    /\ pipe.pc = "ended" => pipe.left = 0

SamplesRead == whisper.frames_read * read_samples

\* C32: the segments handed on, in order, are the input without a trailing
\* remainder shorter than 1 s: while the stream is read every sample read is in
\* exactly one emitted segment or in the buffer, and at the end what is not in a
\* segment is less than 1 s
C32_SegmentsConserveTheStream ==
    /\ whisper.pc = "read" => whisper.segment_samples + whisper.audio_buffer = SamplesRead
    /\ whisper.pc = "final" =>
          /\ whisper.segment_samples <= SamplesRead
          /\ SamplesRead - whisper.segment_samples < sample_rate
          /\ audio_stream.pc = "open" => whisper.frames_read = StreamFrames

C32_Witness ==
    /\ whisper.pc = "final"
    /\ audio_stream.lead = 0
    /\ audio_stream.tone = 305
    /\ audio_stream.trail = 3
    /\ whisper.closed = 1
    /\ whisper.segment_samples = 30 * sample_rate
    /\ SamplesRead - whisper.segment_samples = 8 * read_samples

JobStatus(t) == progress_get(download_progress, t.download_id)

\* the worker has not returned, the 180 s have not passed and time stands still
NeitherReturnedNorTimedOut(t) ==
    /\ t.jpc = "j_wait"
    /\ t.worker # "w_done"
    /\ ~ TimedOut(Elapsed(t))
    /\ ticks = MaxTicks

C35_FinishedMeansFilesRecorded ==
    \A t \in Threads :
        (t.jpc # "none" /\ JobStatus(t).status = "finished") => t.files_recorded

SuccessfulEnd ==
    /\ router.pc = "closed"
    /\ router.endpoint \in {"transcribe-url", "generator"}
    /\ router.frames # <<>>
    /\ router.frames[Len(router.frames)] = Frame(TRUE, "true")

\* C36: when a URL transcription stream has ended successfully, the final frame's
\* transcript is the texts of the chunk frames sent before it, in order, joined by
\* single spaces, and chunks_processed is at least the number of chunk frames
C36_FinalTranscriptIsTheChunkTexts ==
    SuccessfulEnd =>
        /\ router.final_data.transcript = join(router.sent)
        /\ router.final_data.chunks_processed >= Len(router.sent)
        /\ Len(router.sent) = Cardinality(ChunkFrames)

C36_Witness ==
    /\ SuccessfulEnd
    /\ Len(router.sent) = 2
    /\ router.final_data.chunks_processed = 3

StreamEnded ==
    /\ router.pc \in {"closed", "abandoned"}
    /\ router.endpoint \in {"transcribe-url", "generator"}
    /\ router.streaming

\* C37: however a URL transcription stream has ended, the ffmpeg subprocess that
\* was started for it is not left running
C37_NoStreamEndLeavesFfmpegRunning == StreamEnded => router.process # "running"

\* C38: every key of download_progress is also a key of progress_timestamps, so
\* that the eviction by age, which walks progress_timestamps, can reach every entry
C38_EveryProgressEntryHasATimestamp ==
    DOMAIN download_progress \subseteq DOMAIN progress_timestamps

LastAttempt(t) == t.attempts[Len(t.attempts)]

WorkerReturned(t) == t.worker = "w_done" /\ t.attempts # <<>>

\* download_video went past its check of the worker's result
PastCheck(t) == t.jpc \in {"j_list", "j_post", "j_files", "j_final", "j_except",
                           "j_finally", "j_done"}

\* C39: a worker calls the download at most twice, the second time only after a
\* file-name-too-long error of the first and then always; it reports success
\* exactly when its last call succeeded, and a job whose worker failed ends at
\* the status 'error' without entering post-processing
C39_OneRetryOnlyForLongFileName ==
    \A t \in Threads :
        /\ Len(t.attempts) <= 2
        /\ Len(t.attempts) = 2 => t.attempts[1] = "name_too_long"
        /\ WorkerReturned(t) =>
              /\ t.attempts[1] = "name_too_long" => Len(t.attempts) = 2
              /\ t.download_success <=> LastAttempt(t) = "ok"
              /\ (PastCheck(t) /\ ~ t.timed_out /\ LastAttempt(t) # "ok") =>
                    /\ t.jpc \in {"j_finally", "j_done"}
                    /\ JobStatus(t).status \in {"error", NotFound.status}

\* a retry that succeeded and a job that went on to post-processing
C39_Witness ==
    \E t \in Threads :
        /\ t.attempts = <<"name_too_long", "ok">>
        /\ t.download_success
        /\ t.jpc = "j_post"
====
